---- MODULE Spec2Model ----
(***************************************************************************)
(* terraform-provider-smtp: the send_mail resource (Create / Read / Update *)
(* / Delete), the provider's Configure, and the pure helpers they use.     *)
(*                                                                         *)
(* A Go string is modelled as the sequence of its bytes (0..255), so that  *)
(* concatenation, quoting and the MD5 digest are computed on the bytes the *)
(* program handles.                                                        *)
(***************************************************************************)
EXTENDS Integers, Sequences, FiniteSets, TLC

(***************************************************************************)
(* String literals of the program and of the inputs, as bytes.             *)
(***************************************************************************)
\* ""
Empty == <<>>
\* "To: "
LitTo == <<84, 111, 58, 32>>
\* "Cc: "
LitCc == <<67, 99, 58, 32>>
\* "Subject: "
LitSubject == <<83, 117, 98, 106, 101, 99, 116, 58, 32>>
\* ", "
LitCommaSpace == <<44, 32>>
\* "\r\n"
CRLF == <<13, 10>>
\* ":"
LitColon == <<58>>
\* "MIME-version: 1.0;\nContent-Type: text/html; charset=\"UTF-8\";\n\n"
LitMime ==
  <<77, 73, 77, 69, 45, 118, 101, 114, 115, 105, 111, 110, 58, 32, 49, 46, 48,
    59, 10, 67, 111, 110, 116, 101, 110, 116, 45, 84, 121, 112, 101, 58, 32,
    116, 101, 120, 116, 47, 104, 116, 109, 108, 59, 32, 99, 104, 97, 114, 115,
    101, 116, 61, 34, 85, 84, 70, 45, 56, 34, 59, 10, 10>>
\* "<null>"  (attr.NullValueString)
NullValueString == <<60, 110, 117, 108, 108, 62>>
\* "<unknown>"  (attr.UnknownValueString)
UnknownValueString == <<60, 117, 110, 107, 110, 111, 119, 110, 62>>

\* Inputs used by the bounded checks.
\* "a@x"
AddrA == <<97, 64, 120>>
\* "A@x"  (differs from AddrA in letter case only)
AddrUpperA == <<65, 64, 120>>
\* "b@x"
AddrB == <<98, 64, 120>>
\* "c@x"
AddrC == <<99, 64, 120>>
\* "f@x"
AddrF == <<102, 64, 120>>
\* "u@x"
UserU == <<117, 64, 120>>
\* "pw"
PassP == <<112, 119>>
\* "mx"
HostMx == <<109, 120>>
\* "25"
Port25 == <<50, 53>>
\* "Hi"
SubjectHi == <<72, 105>>
\* "Hello"
BodyHello == <<72, 101, 108, 108, 111>>
\* "Hello!"
BodyHelloBang == <<72, 101, 108, 108, 111, 33>>

(***************************************************************************)
(* Generic sequence helpers.                                               *)
(***************************************************************************)
Range(s) == {s[i] : i \in 1..Len(s)}

RECURSIVE Flatten(_)
\* Concatenation of a sequence of byte sequences.
Flatten(ss) == IF ss = <<>> THEN <<>> ELSE Head(ss) \o Flatten(Tail(ss))

\* s occurs in t as a contiguous run of bytes.
Contains(t, s) ==
  \E i \in 0..(Len(t) - Len(s)) : SubSeq(t, i + 1, i + Len(s)) = s

SeqsUpTo(S, n) == UNION {[1..k -> S] : k \in 0..n}

(***************************************************************************)
(* terraform-plugin-framework values.  A types.String is known, null or    *)
(* unknown; a list attribute is used only through Elements(), the sequence *)
(* of its element values (empty for a null list).                          *)
(***************************************************************************)
StringValue(s) == [state |-> "known", value |-> s]
StringNull == [state |-> "null", value |-> Empty]

\* types.String.ValueString(): the string, "" when null.
ValueString(v) == IF v.state = "known" THEN v.value ELSE Empty

\* One hexadecimal digit, lowercase ASCII.
HexDigit(n) == IF n < 10 THEN 48 + n ELSE 87 + n

\* strconv.Quote of one ASCII byte, without the surrounding quotes.
QuoteByte(b) ==
  CASE b = 34 -> <<92, 34>>
    [] b = 92 -> <<92, 92>>
    [] b = 7  -> <<92, 97>>
    [] b = 8  -> <<92, 98>>
    [] b = 12 -> <<92, 102>>
    [] b = 10 -> <<92, 110>>
    [] b = 13 -> <<92, 114>>
    [] b = 9  -> <<92, 116>>
    [] b = 11 -> <<92, 118>>
    [] b < 32 \/ b = 127 -> <<92, 120, HexDigit(b \div 16), HexDigit(b % 16)>>
    [] OTHER -> <<b>>

\* fmt.Sprintf("%q", s) for an ASCII string.
Quote(s) == <<34>> \o Flatten([i \in 1..Len(s) |-> QuoteByte(s[i])]) \o <<34>>

\* attr.Value.String() of a types.String: the human-readable rendering.
AttrString(v) ==
  IF v.state = "null" THEN NullValueString
  ELSE IF v.state = "unknown" THEN UnknownValueString
  ELSE Quote(v.value)

RECURSIVE Join(_, _)
\* strings.Join(elems, sep)
Join(elems, sep) ==
  IF elems = <<>> THEN Empty
  ELSE IF Len(elems) = 1 THEN elems[1]
  ELSE elems[1] \o sep \o Join(Tail(elems), sep)

(***************************************************************************)
(* crypto/md5 (RFC 1321), computed on the bytes.  A 32-bit word is the     *)
(* pair <<low 16 bits, high 16 bits>>, so that every intermediate value    *)
(* stays inside the checker's integers while the arithmetic is mod 2^32.   *)
(***************************************************************************)
Pow2(n) == 2 ^ n

\* x + y mod 2^32
WAdd(x, y) ==
  LET lo == x[1] + y[1]
      hi == x[2] + y[2] + (lo \div 65536)
  IN  <<lo % 65536, hi % 65536>>

\* x rotated left by s bits, 0 <= s < 32
WRotl(x, s) ==
  LET swap == s >= 16
      lo == IF swap THEN x[2] ELSE x[1]
      hi == IF swap THEN x[1] ELSE x[2]
      r  == IF swap THEN s - 16 ELSE s
  IN  IF r = 0 THEN <<lo, hi>>
      ELSE << ((lo * Pow2(r)) % 65536) + (hi \div Pow2(16 - r)),
              ((hi * Pow2(r)) % 65536) + (lo \div Pow2(16 - r)) >>

\* One bit of the round function of round r (0..3) on bits b, c, d:
\* F = (b AND c) OR (NOT b AND d), G = (b AND d) OR (c AND NOT d),
\* H = b XOR c XOR d, I = c XOR (b OR NOT d).
Md5Bit(r, b, c, d) ==
  CASE r = 0 -> IF b = 1 THEN c ELSE d
    [] r = 1 -> IF d = 1 THEN b ELSE c
    [] r = 2 -> (b + c + d) % 2
    [] OTHER -> (c + (IF b = 1 \/ d = 0 THEN 1 ELSE 0)) % 2

\* Bit k of the round function on the values b, c, d.
Md5BitAt(r, b, c, d, k) ==
  Md5Bit(r, (b \div Pow2(k)) % 2, (c \div Pow2(k)) % 2, (d \div Pow2(k)) % 2)

\* Bits k..k+3 of the round function, as a value 0..15.
Md5Nibble(r, b, c, d, k) ==
  Md5BitAt(r, b, c, d, k) + (2 * Md5BitAt(r, b, c, d, k + 1))
    + (4 * Md5BitAt(r, b, c, d, k + 2)) + (8 * Md5BitAt(r, b, c, d, k + 3))

\* The round function on 16-bit values.
Md5Bits(r, b, c, d) ==
  Md5Nibble(r, b, c, d, 0) + (16 * Md5Nibble(r, b, c, d, 4))
    + (256 * Md5Nibble(r, b, c, d, 8)) + (4096 * Md5Nibble(r, b, c, d, 12))

Md5Fun(r, b, c, d) ==
  <<Md5Bits(r, b[1], c[1], d[1]), Md5Bits(r, b[2], c[2], d[2])>>

\* floor(abs(sin(i + 1)) * 2^32), i = 0..63, as <<low, high>>.
Md5K ==
  <<<<42104, 55146>>, <<46934, 59591>>, <<28891, 9248>>, <<52974, 49597>>,
    <<4015, 62844>>, <<50730, 18311>>, <<17939, 43056>>, <<38145, 64838>>,
    <<39128, 27008>>, <<63407, 35652>>, <<23473, 65535>>, <<55230, 35164>>,
    <<4386, 27536>>, <<29075, 64920>>, <<17294, 42617>>, <<2081, 18868>>,
    <<9570, 63006>>, <<45888, 49216>>, <<23121, 9822>>, <<51114, 59830>>,
    <<4189, 54831>>, <<5203, 580>>, <<59009, 55457>>, <<64456, 59347>>,
    <<52710, 8673>>, <<2006, 49975>>, <<3463, 62677>>, <<5357, 17754>>,
    <<59653, 43491>>, <<41976, 64751>>, <<729, 26479>>, <<19594, 36138>>,
    <<14658, 65530>>, <<63105, 34673>>, <<24866, 28061>>, <<14348, 64997>>,
    <<59972, 42174>>, <<53161, 19422>>, <<19296, 63163>>, <<48240, 48831>>,
    <<32454, 10395>>, <<10234, 60065>>, <<12421, 54511>>, <<7429, 1160>>,
    <<53305, 55764>>, <<39397, 59099>>, <<31992, 8098>>, <<22117, 50348>>,
    <<8772, 62505>>, <<65431, 17194>>, <<9127, 43924>>, <<41017, 64659>>,
    <<22979, 25947>>, <<52370, 36620>>, <<62589, 65519>>, <<24017, 34180>>,
    <<32335, 28584>>, <<59104, 65068>>, <<17172, 41729>>, <<4513, 19976>>,
    <<32386, 63315>>, <<62005, 48442>>, <<53947, 10967>>, <<54161, 60294>>>>

\* Per-step left-rotation amounts, four per round.
Md5S ==
  <<<<7, 12, 17, 22>>, <<5, 9, 14, 20>>, <<4, 11, 16, 23>>, <<6, 10, 15, 21>>>>

\* Index of the message word used in step i (0..63).
Md5G(i) ==
  CASE i < 16 -> i
    [] i < 32 -> (5 * i + 1) % 16
    [] i < 48 -> (3 * i + 5) % 16
    [] OTHER  -> (7 * i) % 16

\* Initial chaining value A, B, C, D.
Md5Init ==
  <<<<8961, 26437>>, <<43913, 61389>>, <<56574, 39098>>, <<21622, 4146>>>>

\* The message padded to a multiple of 64 bytes: 0x80, zeros, then the bit
\* length as 8 little-endian bytes.
Md5Pad(m) ==
  LET n == Len(m)
      z == (119 - (n % 64)) % 64
      bits == 8 * n
  IN  m \o <<128>> \o [i \in 1..z |-> 0]
        \o <<bits % 256, (bits \div 256) % 256, (bits \div 65536) % 256,
             0, 0, 0, 0, 0>>

\* Word j (0..15) of block k (0..) of the padded message, little-endian.
Md5Word(p, k, j) ==
  LET o == 64 * k + 4 * j
  IN  <<p[o + 1] + 256 * p[o + 2], p[o + 3] + 256 * p[o + 4]>>

\* Step st[5] (0..63) of the compression of block k of the padded message p,
\* from the state st = <<a, b, c, d, steps done>>.
Md5Step(p, k, st) ==
  LET i == st[5]
      r == i \div 16
      f == Md5Fun(r, st[2], st[3], st[4])
      t == WAdd(WAdd(st[1], f), WAdd(Md5K[i + 1], Md5Word(p, k, Md5G(i))))
      nb == WAdd(st[2], WRotl(t, Md5S[r + 1][(i % 4) + 1]))
  IN  <<st[4], nb, st[2], st[3], i + 1>>

RECURSIVE Md5Steps(_, _, _)
\* The steps st[5]..63 of the compression of block k, from the state st.
Md5Steps(p, k, st) ==
  IF st[5] >= 64 THEN st ELSE Md5Steps(p, k, Md5Step(p, k, st))

\* The chaining value hk = <<A, B, C, D, blocks done>> after one more block
\* whose compression ended in the state st.
Md5Chain(hk, st) ==
  <<WAdd(hk[1], st[1]), WAdd(hk[2], st[2]),
    WAdd(hk[3], st[3]), WAdd(hk[4], st[4]), hk[5] + 1>>

RECURSIVE Md5Blocks(_, _)
\* The chaining value after the blocks of the padded message p that follow
\* the first hk[5] ones, from the chaining value hk[1..4].
Md5Blocks(p, hk) ==
  IF 64 * hk[5] >= Len(p) THEN hk
  ELSE Md5Blocks(p,
         Md5Chain(hk, Md5Steps(p, hk[5], <<hk[1], hk[2], hk[3], hk[4], 0>>)))

\* The four bytes of a word, little-endian.
WBytes(w) == <<w[1] % 256, w[1] \div 256, w[2] % 256, w[2] \div 256>>

\* The 16 bytes of the digest held in the chaining value h.
Md5Bytes(h) == WBytes(h[1]) \o WBytes(h[2]) \o WBytes(h[3]) \o WBytes(h[4])

\* md5.Sum(m): the 16 bytes of the digest.
Md5Sum(m) == Md5Bytes(Md5Blocks(Md5Pad(m), Md5Init \o <<0>>))

\* fmt.Sprintf("%x", bytes): two lowercase hexadecimal digits per byte.
HexString(bs) ==
  Flatten([i \in 1..Len(bs) |-> <<HexDigit(bs[i] \div 16), HexDigit(bs[i] % 16)>>])

(***************************************************************************)
(* The pure helpers of the resource.                                       *)
(***************************************************************************)
RECURSIVE UniqueFrom(_, _, _)
\* The loop of uniqueAttrValue from index e on: arr[e] is appended to result
\* unless the map occurred already holds it; map keys are compared as Go
\* compares attr.Value keys, by dynamic value (state and string, exactly).
UniqueFrom(arr, e, result) ==
  IF e > Len(arr) THEN result
  ELSE IF arr[e] \in Range(result)
       THEN UniqueFrom(arr, e + 1, result)
       ELSE UniqueFrom(arr, e + 1, Append(result, arr[e]))

\* A variant of uniqueAttrValue: addresses compared without regard to case.
LowerByte(c) == IF c >= 65 /\ c <= 90 THEN c + 32 ELSE c
Lower(s) == [n \in 1..Len(s) |-> LowerByte(s[n])]

RECURSIVE UniqueFoldFrom(_, _, _)
UniqueFoldFrom(arr, n, acc) ==
  IF n > Len(arr) THEN acc
  ELSE UniqueFoldFrom(arr, n + 1,
         IF \E m \in 1..Len(acc) :
              Lower(ValueString(acc[m])) = Lower(ValueString(arr[n]))
         THEN acc ELSE Append(acc, arr[n]))

uniqueAttrValueFold(arr) == UniqueFoldFrom(arr, 1, <<>>)

uniqueAttrValue(arr) == UniqueFrom(arr, 1, <<>>)

\* asStringList: String() of every element.
asStringList(arr) == [i \in 1..Len(arr) |-> AttrString(arr[i])]

\* A variant of Sender: the username whatever from is.
SenderUsername(p, c) == c.username

\* The sender: plan.From.ValueString(), or the client's username when empty.
Sender(p, c) ==
  IF ValueString(p.from) = Empty THEN c.username ELSE ValueString(p.from)

\* A variant of Mime: the block written whatever render_html is.
MimeAlways(p) == LitMime

\* The MIME block.
Mime(p) == IF p.render_html THEN LitMime ELSE Empty

\* The envelope recipients: to ++ cc ++ bcc, deduplicated.
Receivers(p) == uniqueAttrValue((p.to \o p.cc) \o p.bcc)

\* The three header lines of the message.
HeaderBlock(p) ==
  LitTo \o Join(asStringList(p.to), LitCommaSpace) \o CRLF
    \o LitCc \o Join(asStringList(p.cc), LitCommaSpace) \o CRLF
    \o LitSubject \o ValueString(p.subject) \o CRLF

\* msg, the bytes written in the DATA phase.
Message(p) ==
  HeaderBlock(p) \o Mime(p) \o CRLF \o ValueString(p.body) \o CRLF

(***************************************************************************)
(* The provider: Configure builds the client the resources share.          *)
(***************************************************************************)
StringUnknown == [state |-> "unknown", value |-> Empty]
BoolValue(b) == [state |-> "known", value |-> b]
BoolNull == [state |-> "null", value |-> FALSE]
BoolUnknown == [state |-> "unknown", value |-> FALSE]

IsNull(v) == v.state = "null"
IsUnknown(v) == v.state = "unknown"
\* types.Bool.ValueBool(): false when null or unknown.
ValueBool(v) == v.state = "known" /\ v.value

\* smtp.Auth(nil) and smtp.PlainAuth("", username, password, host).
NilAuth == [nil |-> TRUE, username |-> Empty, password |-> Empty, host |-> Empty]
PlainAuth(username, password, host) ==
  [nil |-> FALSE, username |-> username, password |-> password, host |-> host]

\* No client: the provider is not configured (r.client is nil).
NoClient ==
  [configured |-> FALSE, host |-> Empty, port |-> Empty, username |-> Empty,
   auth |-> NilAuth]

\* The strings strconv.ParseBool accepts: "1", "t", "T", "TRUE", "true", "True"
ParseBoolTrue ==
  {<<49>>, <<116>>, <<84>>, <<84, 82, 85, 69>>, <<116, 114, 117, 101>>,
   <<84, 114, 117, 101>>}
\* and "0", "f", "F", "FALSE", "false", "False".
ParseBoolFalse ==
  {<<48>>, <<102>>, <<70>>, <<70, 65, 76, 83, 69>>, <<102, 97, 108, 115, 101>>,
   <<70, 97, 108, 115, 101>>}

\* A variant of EnvAuthentication: the result of ParseBool with its error
\* ignored, false for what is no boolean.
EnvAuthenticationParsed(e) == e \in ParseBoolTrue

\* authentication, err := strconv.ParseBool(env); if err != nil, true.
EnvAuthentication(e) == IF e \in ParseBoolFalse THEN FALSE ELSE TRUE

\* config.Authentication after an unknown value was replaced by true.
KnownAuthentication(config) ==
  IF IsUnknown(config.authentication) THEN BoolValue(TRUE)
  ELSE config.authentication

\* The errors of the first block: unknown configuration values.
UnknownErrors(config) ==
  (IF IsUnknown(config.host) THEN <<"Unknown SMTP Host">> ELSE <<>>)
  \o (IF IsUnknown(config.port) THEN <<"Unknown SMTP port">> ELSE <<>>)
  \o (IF ValueBool(KnownAuthentication(config)) /\ IsUnknown(config.username)
      THEN <<"Unknown SMTP Username">> ELSE <<>>)
  \o (IF ValueBool(KnownAuthentication(config)) /\ IsUnknown(config.password)
      THEN <<"Unknown SMTP Password">> ELSE <<>>)

\* A variant of EffectiveString: the environment first.
EffectiveStringEnvFirst(v, e) == IF e # Empty THEN e ELSE ValueString(v)

\* A string setting: the configured value when not null, else the environment's.
EffectiveString(v, e) == IF ~IsNull(v) THEN ValueString(v) ELSE e

\* The effective host, port, authentication, username and password.
Effective(config, env) ==
  [host |-> EffectiveString(config.host, env.SMTP_HOST),
   port |-> EffectiveString(config.port, env.SMTP_PORT),
   authentication |->
     IF ~IsNull(KnownAuthentication(config))
     THEN ValueBool(KnownAuthentication(config))
     ELSE EnvAuthentication(env.SMTP_AUTHENTICATION),
   username |-> EffectiveString(config.username, env.SMTP_USERNAME),
   password |-> EffectiveString(config.password, env.SMTP_PASSWORD)]

\* A variant of MissingErrors: username and password required whether or not
\* authentication is enabled.
MissingErrorsStrict(eff) ==
  (IF eff.host = Empty THEN <<"Missing SMTP Host">> ELSE <<>>)
  \o (IF eff.port = Empty THEN <<"Missing SMTP host port">> ELSE <<>>)
  \o (IF eff.username = Empty THEN <<"Missing SMTP Username">> ELSE <<>>)
  \o (IF eff.password = Empty THEN <<"Missing SMTP Password">> ELSE <<>>)

\* The errors of the second block: missing or empty values.
MissingErrors(eff) ==
  (IF eff.host = Empty THEN <<"Missing SMTP Host">> ELSE <<>>)
  \o (IF eff.port = Empty THEN <<"Missing SMTP host port">> ELSE <<>>)
  \o (IF eff.authentication /\ eff.username = Empty
      THEN <<"Missing SMTP Username">> ELSE <<>>)
  \o (IF eff.authentication /\ eff.password = Empty
      THEN <<"Missing SMTP Password">> ELSE <<>>)

\* The client built from the effective values.
NewClient(eff) ==
  [configured |-> TRUE, host |-> eff.host, port |-> eff.port,
   username |-> eff.username,
   auth |-> IF eff.authentication
            THEN PlainAuth(eff.username, eff.password, eff.host)
            ELSE NilAuth]

\* The diagnostics Configure reports for config and env.
ConfigureErrors(config, env) ==
  IF UnknownErrors(config) # <<>> THEN UnknownErrors(config)
  ELSE MissingErrors(Effective(config, env))

\* resp.ResourceData: the client, or none when an error was reported.
ConfigureClient(config, env) ==
  IF ConfigureErrors(config, env) # <<>> THEN NoClient
  ELSE NewClient(Effective(config, env))

(***************************************************************************)
(* Bounded inputs.                                                         *)
(***************************************************************************)
\* Lifecycle operations in one run.
MaxOps == 2

\* Provider configurations: the two of the examples (with credentials, and
\* authentication = false), authentication = false with a username, and one
\* without a host.
ProviderConfigs ==
  { [host |-> StringValue(HostMx), port |-> StringValue(Port25),
     authentication |-> BoolNull,
     username |-> StringValue(UserU), password |-> StringValue(PassP)],
    [host |-> StringValue(HostMx), port |-> StringValue(Port25),
     authentication |-> BoolValue(FALSE),
     username |-> StringNull, password |-> StringNull],
    [host |-> StringValue(HostMx), port |-> StringValue(Port25),
     authentication |-> BoolValue(FALSE),
     username |-> StringValue(UserU), password |-> StringNull],
    [host |-> StringNull, port |-> StringValue(Port25),
     authentication |-> BoolNull,
     username |-> StringValue(UserU), password |-> StringValue(PassP)] }

\* The environment: nothing set.
ProviderEnvs ==
  { [SMTP_HOST |-> Empty, SMTP_PORT |-> Empty, SMTP_USERNAME |-> Empty,
     SMTP_PASSWORD |-> Empty, SMTP_AUTHENTICATION |-> Empty] }

\* A plan of the resource (sendMailModel); id is computed, unknown in a plan.
Plan(f, t, c, b, subject, body, html) ==
  [id |-> StringUnknown, from |-> f, to |-> t, cc |-> c, bcc |-> b,
   subject |-> StringValue(subject), body |-> StringValue(body),
   render_html |-> html]

Values(ss) == [i \in 1..Len(ss) |-> StringValue(ss[i])]

\* The to, cc and bcc lists of the plans: one recipient; a second one in bcc
\* only; and three recipients with one of them both in to and in cc.
AddressLists ==
  { <<<<AddrA>>, <<>>, <<>>>>,
    <<<<AddrA>>, <<>>, <<AddrC>>>>,
    <<<<AddrA, AddrB>>, <<AddrB>>, <<AddrC>>>> }

\* The plans given to Create and Update: with and without from, the address
\* lists above, two bodies, plain and html; one plan with no address and
\* one with from set to the empty string.
Plans ==
  { Plan(f, Values(a[1]), Values(a[2]), Values(a[3]), SubjectHi, body, h) :
      f \in {StringNull, StringValue(AddrF)},
      a \in AddressLists,
      body \in {BodyHello, BodyHelloBang},
      h \in BOOLEAN }
  \cup { Plan(StringNull, <<>>, <<>>, <<>>, SubjectHi, BodyHello, FALSE),
         Plan(StringValue(Empty), Values(<<AddrA>>), <<>>, <<>>, SubjectHi,
              BodyHello, FALSE) }

\* No plan and no state: every attribute null.
NullPlan ==
  [id |-> StringNull, from |-> StringNull, to |-> <<>>, cc |-> <<>>,
   bcc |-> <<>>, subject |-> StringNull, body |-> StringNull,
   render_html |-> FALSE]

(***************************************************************************)
(* The identifier of a sent message.                                       *)
(***************************************************************************)
\* The digests of the messages of Plans, computed once.
DigestTable == {<<m, HexString(Md5Sum(m))>> : m \in {Message(p) : p \in Plans}}

\* fmt.Sprintf("%x", md5.Sum(m))
HexMd5(m) ==
  IF \E e \in DigestTable : e[1] = m
  THEN (CHOOSE e \in DigestTable : e[1] = m)[2]
  ELSE HexString(Md5Sum(m))

\* A variant of SendId: the bcc addresses hashed with the message.
SendIdWithBcc(p) ==
  StringValue(HexMd5(Message(p) \o Join(asStringList(p.bcc), LitCommaSpace)))

\* A variant of SendId: the sender hashed with the message.
SendIdWithSender(p) ==
  StringValue(HexMd5(ValueString(p.from) \o Message(p)))

\* plan.ID of a successful send of plan p.
SendId(p) == StringValue(HexMd5(Message(p)))

(***************************************************************************)
(* State.                                                                  *)
(***************************************************************************)
VARIABLES
  client,      \* the client Configure handed to the resource (r.client)
  provDiags,   \* the errors Configure reported
  cfg,         \* the provider configuration Configure read (req.Config)
  environ,     \* the environment Configure read (os.Getenv)
  ctx,         \* the handler's context: cancelled or not, and when
  state,       \* the resource's stored state (resp.State), NullPlan if none
  prior,       \* the stored state when the handler was invoked (req.State)
  op,          \* the handler running or last run: Create, Read, Update, Delete
  pc,          \* its position: the next step, "done" (returned) or "panic"
  plan,        \* the plan it read
  from,        \* its local from
  receivers,   \* its local receivers
  msg,         \* its local msg
  ri,          \* its position in the loop over receivers
  conn,        \* the connection it dialled: "none", "open" or "closed"
  calls,       \* the calls it made on the transport, in order, with results
  diags,       \* the errors it reported (resp.Diagnostics)
  nOps,        \* handlers invoked so far
  nSends,      \* Create and Update handlers invoked so far
  nDials       \* smtp.Dial calls made so far

vars ==
  <<client, provDiags, cfg, environ, ctx, state, prior, op, pc, plan, from,
    receivers, msg, ri, conn, calls, diags, nOps, nSends, nDials>>

provider == <<client, provDiags, cfg, environ>>

locals == <<from, receivers, msg, ri>>
counters == <<nOps, nSends, nDials>>

Call(step, arg, res) == [step |-> step, arg |-> arg, res |-> res]

\* The result of a call the server accepts or rejects.
Res(ok) == IF ok THEN "ok" ELSE "err"

HostPort(c) == c.host \o LitColon \o c.port

\* A configuration with nothing set, and an environment with nothing set.
NullConfig ==
  [host |-> StringNull, port |-> StringNull, authentication |-> BoolNull,
   username |-> StringNull, password |-> StringNull]
EmptyEnv ==
  [SMTP_HOST |-> Empty, SMTP_PORT |-> Empty, SMTP_USERNAME |-> Empty,
   SMTP_PASSWORD |-> Empty, SMTP_AUTHENTICATION |-> Empty]

\* A context that is not cancelled, and one cancelled after n calls.
LiveCtx == [done |-> FALSE, at |-> 0]
CancelledCtx(n) == [done |-> TRUE, at |-> n]

Init ==
  /\ ctx = LiveCtx
  /\ client = NoClient
  /\ provDiags = <<>>
  /\ cfg = NullConfig
  /\ environ = EmptyEnv
  /\ state = NullPlan
  /\ prior = NullPlan
  /\ op = "none"
  /\ pc = "done"
  /\ plan = NullPlan
  /\ from = Empty
  /\ receivers = <<>>
  /\ msg = Empty
  /\ ri = 0
  /\ conn = "none"
  /\ calls = <<>>
  /\ diags = <<>>
  /\ nOps = 0
  /\ nSends = 0
  /\ nDials = 0

(***************************************************************************)
(* smtpProvider.Configure                                                  *)
(***************************************************************************)
\* Configure runs once, before any resource is handled.
CanConfigure == ~client.configured /\ provDiags = <<>>

Configure(config, env) ==
  /\ CanConfigure
  /\ cfg' = config
  /\ environ' = env
  /\ provDiags' = ConfigureErrors(config, env)
  /\ client' = ConfigureClient(config, env)
  /\ UNCHANGED <<ctx, state, prior, op, pc, plan, locals, conn, calls, diags,
                 counters>>

(***************************************************************************)
(* sendMailResource.Create and Update, step by step.  Every call on the    *)
(* transport succeeds or fails as the server decides (ok).                 *)
(***************************************************************************)
\* A handler may be invoked: the provider is configured, no handler is
\* running and the process is alive.
CanInvoke == client.configured /\ pc = "done" /\ nOps < MaxOps

\* Variants of AfterError: a handler that ignores a failed RCPT TO and goes
\* on to DATA, and one that tries a failed DATA again.
AfterErrorSkip(step) == IF step = "Rcpt" THEN "data" ELSE "done"
AfterErrorRetry(step) == IF step = "Data" THEN "data" ELSE "done"

\* Where the handler goes after the call of step failed: it returns.
AfterError(step) == "done"

\* The call of step failed: the handler reports the error and returns.
Fail(step, summary) ==
  /\ diags' = Append(diags, summary)
  /\ pc' = AfterError(step)

\* Create guards StartTLS and Auth by r.client.auth != nil; Update does not.
UsesAuth(o) == o = "Update" \/ ~client.auth.nil

\* A variant of AfterDial: Auth without STARTTLS before it.
AfterDialAuth(o) == IF UsesAuth(o) THEN "auth" ELSE "mail"

\* The step that follows a successful Dial.
AfterDial(o) == IF UsesAuth(o) THEN "starttls" ELSE "mail"

\* The handler o starts with plan p: reads the plan and dials host:port.
Begin(o, p, ok) ==
  /\ CanInvoke
  /\ op' = o
  /\ prior' = state
  /\ plan' = p
  /\ from' = Empty /\ receivers' = <<>> /\ msg' = Empty /\ ri' = 0
  /\ nOps' = nOps + 1
  /\ nSends' = nSends + 1
  /\ nDials' = nDials + 1
  /\ calls' = <<Call("Dial", HostPort(client), Res(ok))>>
  /\ IF ok
     THEN /\ conn' = "open"
          /\ diags' = <<>>
          /\ pc' = AfterDial(o)
     ELSE /\ conn' = "none"
          /\ diags' = <<"Error connecting to SMTP server:">>
          /\ pc' = AfterError("Dial")
  /\ ctx' = LiveCtx
  /\ UNCHANGED <<provider, state>>

Create(p, ok) == Begin("Create", p, ok)

\* The resource is updated in place: it is in the state s and the plan p
\* changes none of to, subject and body, whose change replaces it.
InPlace(s, p) ==
  /\ s.id.state = "known"
  /\ p.to = s.to
  /\ p.subject = s.subject
  /\ p.body = s.body

Update(p, ok) == InPlace(state, p) /\ Begin("Update", p, ok)

\* conn.StartTLS(&tls.Config{ServerName: host_port, InsecureSkipVerify: true})
StartTLS(ok) ==
  /\ pc = "starttls"
  /\ calls' = Append(calls, Call("StartTLS", HostPort(client), Res(ok)))
  /\ IF ok THEN pc' = "auth" /\ diags' = diags
           ELSE Fail("StartTLS", "Error upgrading connection to TLS:")
  /\ UNCHANGED <<provider, ctx, state, prior, op, plan, locals, conn,
                 counters>>

\* conn.Auth(r.client.auth) with credentials.  When the server rejects them,
\* net/smtp sends QUIT, and closes the connection if QUIT is accepted.
Auth(ok, quit) ==
  /\ pc = "auth"
  /\ ~client.auth.nil
  /\ calls' = Append(calls, Call("Auth", client.auth.username, Res(ok)))
  /\ IF ok THEN pc' = "mail" /\ diags' = diags /\ conn' = conn
           ELSE /\ Fail("Auth", "Error authenticating with SMTP server:")
                /\ conn' = IF quit THEN "closed" ELSE conn
  /\ UNCHANGED <<provider, ctx, state, prior, op, plan, locals, counters>>

\* conn.Auth(nil): net/smtp calls a.Start on the nil interface, the plugin
\* process panics; its sockets are closed with it and no handler runs again.
AuthNil ==
  /\ pc = "auth"
  /\ client.auth.nil
  /\ calls' = Append(calls, Call("Auth", Empty, "panic"))
  /\ pc' = "panic"
  /\ conn' = "closed"
  /\ UNCHANGED <<provider, ctx, state, prior, op, plan, locals, diags,
                 counters>>

\* The step that follows a successful MAIL FROM, for the receivers rs.
AfterMail(rs) == IF rs = <<>> THEN "data" ELSE "rcpt"

\* from, mime, receivers and msg are computed, then conn.Mail(from).
Mail(ok) ==
  /\ pc = "mail"
  /\ from' = Sender(plan, client)
  /\ receivers' = Receivers(plan)
  /\ msg' = Message(plan)
  /\ ri' = 1
  /\ calls' = Append(calls, Call("Mail", from', Res(ok)))
  /\ IF ok THEN pc' = AfterMail(receivers') /\ diags' = diags
           ELSE Fail("Mail", "Error setting sender address:")
  /\ UNCHANGED <<provider, ctx, state, prior, op, plan, conn, counters>>

\* A variant of AfterRcpt: a loop that ends after its first turn.
AfterRcptOnce(k) == "data"

\* The step that follows a successful RCPT TO for receivers[k].
AfterRcpt(k) == IF k = Len(receivers) THEN "data" ELSE "rcpt"

\* One turn of the loop: conn.Rcpt(addr.String()).
Rcpt(ok) ==
  /\ pc = "rcpt"
  /\ calls' = Append(calls, Call("Rcpt", AttrString(receivers[ri]), Res(ok)))
  /\ IF ok THEN pc' = AfterRcpt(ri) /\ ri' = ri + 1 /\ diags' = diags
           ELSE Fail("Rcpt", "Error setting recipient address:") /\ ri' = ri
  /\ UNCHANGED <<provider, ctx, state, prior, op, plan, from, receivers,
                 msg, conn, counters>>

\* w, err := conn.Data()
Data(ok) ==
  /\ pc = "data"
  /\ calls' = Append(calls, Call("Data", Empty, Res(ok)))
  /\ IF ok THEN pc' = "write" /\ diags' = diags
           ELSE Fail("Data", "Error setting email message:")
  /\ UNCHANGED <<provider, ctx, state, prior, op, plan, locals, conn,
                 counters>>

\* w.Write(msg)
Write(ok) ==
  /\ pc = "write"
  /\ calls' = Append(calls, Call("Write", msg, Res(ok)))
  /\ IF ok THEN pc' = "close" /\ diags' = diags
           ELSE Fail("Write", "Error setting email message:")
  /\ UNCHANGED <<provider, ctx, state, prior, op, plan, locals, conn,
                 counters>>

\* A variant of StateAfterClose: the state written whether or not the close
\* succeeded.
StateAfterCloseAlways(ok, s, p) == [p EXCEPT !.id = SendId(p)]

\* The stored state after w.Close() with the state s and the plan p: on
\* success plan.ID is set and the plan is stored, else the handler returns.
StateAfterClose(ok, s, p) ==
  IF ok THEN [p EXCEPT !.id = SendId(p)] ELSE s

\* w.Close(); on success plan.ID is set and the plan is stored as the state.
Close(ok) ==
  /\ pc = "close"
  /\ calls' = Append(calls, Call("Close", Empty, Res(ok)))
  /\ state' = StateAfterClose(ok, state, plan)
  /\ IF ok THEN pc' = "done" /\ diags' = diags
           ELSE Fail("Close", "Error sending email:")
  /\ UNCHANGED <<provider, ctx, prior, op, plan, locals, conn, counters>>

(***************************************************************************)
(* sendMailResource.Read and Delete: empty handlers.                       *)
(***************************************************************************)
\* A variant of Untouched: a handler that removes the resource.
Removed(s) == NullPlan

\* What an empty handler leaves of the state s.
Untouched(s) == s

NoOp(o) ==
  /\ CanInvoke
  /\ op' = o
  /\ prior' = state
  /\ plan' = NullPlan
  /\ from' = Empty /\ receivers' = <<>> /\ msg' = Empty /\ ri' = 0
  /\ calls' = <<>>
  /\ diags' = <<>>
  /\ nOps' = nOps + 1
  /\ state' = Untouched(state)
  /\ ctx' = LiveCtx
  /\ UNCHANGED <<provider, pc, conn, nSends, nDials>>

Read == NoOp("Read")

Delete == NoOp("Delete")

\* The caller cancels the context of the Create or Update in flight.  The
\* handlers pass ctx to Plan.Get, tflog and State.Set only: no step reads it.
Cancel ==
  /\ op \in {"Create", "Update"}
  /\ pc \notin {"done", "panic"}
  /\ ~ctx.done
  /\ ctx' = CancelledCtx(Len(calls))
  /\ UNCHANGED <<provider, state, prior, op, pc, plan, locals, conn, calls,
                 diags, counters>>

Next ==
  \/ \E config \in ProviderConfigs, env \in ProviderEnvs : Configure(config, env)
  \/ \E p \in Plans, ok \in BOOLEAN : Create(p, ok)
  \/ \E p \in Plans, ok \in BOOLEAN : Update(p, ok)
  \/ \E ok \in BOOLEAN : StartTLS(ok)
  \/ \E ok \in BOOLEAN, quit \in BOOLEAN : Auth(ok, quit)
  \/ AuthNil
  \/ \E ok \in BOOLEAN : Mail(ok)
  \/ \E ok \in BOOLEAN : Rcpt(ok)
  \/ \E ok \in BOOLEAN : Data(ok)
  \/ \E ok \in BOOLEAN : Write(ok)
  \/ \E ok \in BOOLEAN : Close(ok)
  \/ Read
  \/ Delete

Spec == Init /\ [][Next]_vars

\* The same with cancellation.
NextCancel == Next \/ Cancel

SpecCancel == Init /\ [][NextCancel]_vars

(***************************************************************************)
(* The composition of from, receivers and msg alone, on a wider range of   *)
(* address lists: repeated addresses and addresses differing in case only. *)
(***************************************************************************)
\* Longest to, cc and bcc lists.
MaxTo == 2
MaxCc == 1
MaxBcc == 1

ComposeAddrs == {AddrA, AddrUpperA, AddrB}

ComposePlans ==
  { Plan(f, Values(t), Values(c), Values(b), SubjectHi, BodyHello, h) :
      f \in {StringNull, StringValue(AddrF)},
      t \in SeqsUpTo(ComposeAddrs, MaxTo),
      c \in SeqsUpTo(ComposeAddrs, MaxCc),
      b \in SeqsUpTo(ComposeAddrs, MaxBcc),
      h \in BOOLEAN }

\* The clients Configure hands out without error.
Clients ==
  { ConfigureClient(config, env) :
      config \in {cf \in ProviderConfigs :
                    \A env \in ProviderEnvs : ConfigureErrors(cf, env) = <<>>},
      env \in ProviderEnvs }

InitCompose ==
  /\ ctx = LiveCtx
  /\ cfg \in ProviderConfigs
  /\ environ \in ProviderEnvs
  /\ ConfigureErrors(cfg, environ) = <<>>
  /\ client = ConfigureClient(cfg, environ)
  /\ provDiags = <<>>
  /\ state = NullPlan
  /\ prior = NullPlan
  /\ op = "Create"
  /\ pc = "compose"
  /\ plan \in ComposePlans
  /\ from = Empty
  /\ receivers = <<>>
  /\ msg = Empty
  /\ ri = 0
  /\ conn = "open"
  /\ calls = <<>>
  /\ diags = <<>>
  /\ nOps = 1
  /\ nSends = 1
  /\ nDials = 1

\* from, receivers and msg as Create and Update compute them from the plan.
Compose ==
  /\ pc = "compose"
  /\ from' = Sender(plan, client)
  /\ receivers' = Receivers(plan)
  /\ msg' = Message(plan)
  /\ pc' = "composed"
  /\ UNCHANGED <<provider, ctx, state, prior, op, plan, ri, conn, calls,
                 diags, counters>>

NextCompose == Compose

SpecCompose == InitCompose /\ [][NextCompose]_vars


(***************************************************************************)
(* Concurrent Create and Update handlers of one sendMailResource: the      *)
(* framework runs the handlers of different resources of the type at the   *)
(* same time, on the same r.client.  Here op, pc, plan, from, receivers,   *)
(* msg, ri, conn, diags, state and prior hold one value for each           *)
(* invocation, and calls holds, for each connection smtp.Dial returned,    *)
(* the calls made on it with the invocation that made each.                *)
(***************************************************************************)
\* Invocations that run at the same time.
MaxInv == 2

Invs == 1..MaxInv

\* The plan of the concurrent invocations, and the state an earlier Create
\* of it left.
ConcurrentPlan ==
  Plan(StringNull, Values(<<AddrA>>), <<>>, <<>>, SubjectHi, BodyHello, FALSE)

ConcurrentStates ==
  {NullPlan, [ConcurrentPlan EXCEPT !.id = SendId(ConcurrentPlan)]}

InitConcurrent ==
  /\ ctx = LiveCtx
  /\ cfg \in ProviderConfigs
  /\ environ \in ProviderEnvs
  /\ ConfigureErrors(cfg, environ) = <<>>
  /\ client = ConfigureClient(cfg, environ)
  /\ provDiags = <<>>
  /\ state \in [Invs -> ConcurrentStates]
  /\ prior = [i \in Invs |-> NullPlan]
  /\ op = [i \in Invs |-> "none"]
  /\ pc = [i \in Invs |-> "idle"]
  /\ plan = [i \in Invs |-> NullPlan]
  /\ from = [i \in Invs |-> Empty]
  /\ receivers = [i \in Invs |-> <<>>]
  /\ msg = [i \in Invs |-> Empty]
  /\ ri = [i \in Invs |-> 0]
  /\ conn = [i \in Invs |-> 0]
  /\ calls = <<>>
  /\ diags = [i \in Invs |-> <<>>]
  /\ nOps = 0
  /\ nSends = 0
  /\ nDials = 0

\* The process is alive: no handler has panicked.
Alive == \A i \in Invs : pc[i] # "panic"

\* A call made by invocation i.
CallBy(i, step, arg, res) ==
  [by |-> i, step |-> step, arg |-> arg, res |-> res]

\* A variant of ConnOf: conn kept in a field of the resource, which holds
\* the connection dialled last by any invocation.
ConnShared(i) == Len(calls)

\* The connection invocation i makes its calls on: its local variable conn.
ConnOf(i) == conn[i]

\* Invocation i makes a call on its connection.
Issue(i, step, arg, res) ==
  calls' = [calls EXCEPT ![ConnOf(i)] = Append(@, CallBy(i, step, arg, res))]

\* Invocation i goes to the step next if the call succeeded, and else
\* reports the error and returns.
Proceed(i, ok, step, next, summary) ==
  IF ok THEN /\ pc' = [pc EXCEPT ![i] = next]
             /\ diags' = diags
        ELSE /\ pc' = [pc EXCEPT ![i] = AfterError(step)]
             /\ diags' = [diags EXCEPT ![i] = Append(@, summary)]

\* Invocation i of the handler o starts with plan p and dials: Create for a
\* resource with no state, Update for one updated in place.
BeginBy(i, o, p, ok) ==
  /\ Alive
  /\ pc[i] = "idle"
  /\ IF o = "Update" THEN InPlace(state[i], p) ELSE state[i] = NullPlan
  /\ op' = [op EXCEPT ![i] = o]
  /\ prior' = [prior EXCEPT ![i] = state[i]]
  /\ plan' = [plan EXCEPT ![i] = p]
  /\ nOps' = nOps + 1
  /\ nSends' = nSends + 1
  /\ nDials' = nDials + 1
  /\ IF ok
     THEN /\ calls' = Append(calls, <<CallBy(i, "Dial", HostPort(client), "ok")>>)
          /\ conn' = [conn EXCEPT ![i] = Len(calls) + 1]
     ELSE /\ calls' = calls
          /\ conn' = conn
  /\ Proceed(i, ok, "Dial", AfterDial(o), "Error connecting to SMTP server:")
  /\ UNCHANGED <<provider, ctx, state, locals>>

StartTLSBy(i, ok) ==
  /\ Alive
  /\ pc[i] = "starttls"
  /\ Issue(i, "StartTLS", HostPort(client), Res(ok))
  /\ Proceed(i, ok, "StartTLS", "auth", "Error upgrading connection to TLS:")
  /\ UNCHANGED <<provider, ctx, state, prior, op, plan, locals, conn,
                 counters>>

AuthBy(i, ok) ==
  /\ Alive
  /\ pc[i] = "auth"
  /\ ~client.auth.nil
  /\ Issue(i, "Auth", client.auth.username, Res(ok))
  /\ Proceed(i, ok, "Auth", "mail", "Error authenticating with SMTP server:")
  /\ UNCHANGED <<provider, ctx, state, prior, op, plan, locals, conn,
                 counters>>

\* conn.Auth(nil) panics: the process ends, with every handler running in it.
AuthNilBy(i) ==
  /\ Alive
  /\ pc[i] = "auth"
  /\ client.auth.nil
  /\ Issue(i, "Auth", Empty, "panic")
  /\ pc' = [pc EXCEPT ![i] = "panic"]
  /\ UNCHANGED <<provider, ctx, state, prior, op, plan, locals, conn, diags,
                 counters>>

MailBy(i, ok) ==
  /\ Alive
  /\ pc[i] = "mail"
  /\ from' = [from EXCEPT ![i] = Sender(plan[i], client)]
  /\ receivers' = [receivers EXCEPT ![i] = Receivers(plan[i])]
  /\ msg' = [msg EXCEPT ![i] = Message(plan[i])]
  /\ ri' = [ri EXCEPT ![i] = 1]
  /\ Issue(i, "Mail", from'[i], Res(ok))
  /\ Proceed(i, ok, "Mail", AfterMail(receivers'[i]),
             "Error setting sender address:")
  /\ UNCHANGED <<provider, ctx, state, prior, op, plan, conn, counters>>

RcptBy(i, ok) ==
  /\ Alive
  /\ pc[i] = "rcpt"
  /\ Issue(i, "Rcpt", AttrString(receivers[i][ri[i]]), Res(ok))
  /\ Proceed(i, ok, "Rcpt",
             IF ri[i] = Len(receivers[i]) THEN "data" ELSE "rcpt",
             "Error setting recipient address:")
  /\ ri' = [ri EXCEPT ![i] = IF ok THEN @ + 1 ELSE @]
  /\ UNCHANGED <<provider, ctx, state, prior, op, plan, from, receivers,
                 msg, conn, counters>>

DataBy(i, ok) ==
  /\ Alive
  /\ pc[i] = "data"
  /\ Issue(i, "Data", Empty, Res(ok))
  /\ Proceed(i, ok, "Data", "write", "Error setting email message:")
  /\ UNCHANGED <<provider, ctx, state, prior, op, plan, locals, conn,
                 counters>>

WriteBy(i, ok) ==
  /\ Alive
  /\ pc[i] = "write"
  /\ Issue(i, "Write", msg[i], Res(ok))
  /\ Proceed(i, ok, "Write", "close", "Error setting email message:")
  /\ UNCHANGED <<provider, ctx, state, prior, op, plan, locals, conn,
                 counters>>

CloseBy(i, ok) ==
  /\ Alive
  /\ pc[i] = "close"
  /\ Issue(i, "Close", Empty, Res(ok))
  /\ state' = [state EXCEPT ![i] = StateAfterClose(ok, @, plan[i])]
  /\ Proceed(i, ok, "Close", "done", "Error sending email:")
  /\ UNCHANGED <<provider, ctx, prior, op, plan, locals, conn, counters>>

NextConcurrent ==
  \/ \E i \in Invs, ok \in BOOLEAN : BeginBy(i, "Create", ConcurrentPlan, ok)
  \/ \E i \in Invs, ok \in BOOLEAN : BeginBy(i, "Update", ConcurrentPlan, ok)
  \/ \E i \in Invs, ok \in BOOLEAN : StartTLSBy(i, ok)
  \/ \E i \in Invs, ok \in BOOLEAN : AuthBy(i, ok)
  \/ \E i \in Invs : AuthNilBy(i)
  \/ \E i \in Invs, ok \in BOOLEAN : MailBy(i, ok)
  \/ \E i \in Invs, ok \in BOOLEAN : RcptBy(i, ok)
  \/ \E i \in Invs, ok \in BOOLEAN : DataBy(i, ok)
  \/ \E i \in Invs, ok \in BOOLEAN : WriteBy(i, ok)
  \/ \E i \in Invs, ok \in BOOLEAN : CloseBy(i, ok)

SpecConcurrent == InitConcurrent /\ [][NextConcurrent]_vars

(***************************************************************************)
(* Properties.                                                             *)
(***************************************************************************)
\* A Create or Update handler is running or was the last to run.
Sending == op \in {"Create", "Update"}

\* It has returned.
Returned == Sending /\ pc = "done"

\* It has returned without an error: every step of the send succeeded.
Succeeded == Returned /\ diags = <<>>

\* The positions in calls of the calls of step s.
StepsAt(s) == {k \in 1..Len(calls) : calls[k].step = s}

\* The number of RCPT TO calls among the first k calls.
RcptsUpTo(k) == Cardinality({j \in 1..k : calls[j].step = "Rcpt"})

\* C1: when the provider is configured without authentication (the client's
\* auth is nil), a create or an update issues neither STARTTLS nor Auth.
C1_NoTlsNoAuthWithoutAuthentication ==
  (Sending /\ client.auth.nil) =>
    StepsAt("StartTLS") \cup StepsAt("Auth") = {}

\* Step t may directly follow step s in the order Dial, STARTTLS (optional),
\* Auth (optional), MAIL FROM, RCPT TO ..., DATA, write, close.
Follows(s, t) ==
  CASE s = "Dial"     -> t \in {"StartTLS", "Auth", "Mail"}
    [] s = "StartTLS" -> t \in {"Auth", "Mail"}
    [] s = "Auth"     -> t = "Mail"
    [] s = "Mail"     -> t \in {"Rcpt", "Data"}
    [] s = "Rcpt"     -> t \in {"Rcpt", "Data"}
    [] s = "Data"     -> t = "Write"
    [] s = "Write"    -> t = "Close"
    [] OTHER          -> FALSE

\* C2: the steps of a send are issued in the order Dial, STARTTLS (optional),
\* Auth (optional), MAIL FROM, RCPT TO for each recipient, DATA, write of the
\* message, close of the data writer; each step only after every earlier one
\* succeeded, and DATA only after one RCPT TO for each recipient.
C2_StepOrder ==
  Sending =>
    /\ Len(calls) >= 1
    /\ calls[1].step = "Dial"
    /\ \A k \in 2..Len(calls) :
         /\ calls[k - 1].res = "ok"
         /\ Follows(calls[k - 1].step, calls[k].step)
    /\ \A k \in StepsAt("Rcpt") : RcptsUpTo(k) <= Len(Receivers(plan))
    /\ \A k \in StepsAt("Data") : RcptsUpTo(k) = Len(Receivers(plan))

\* A send with STARTTLS, Auth and three recipients went through.
C2_Witness ==
  /\ Succeeded
  /\ Len(Receivers(plan)) = 3
  /\ StepsAt("StartTLS") # {}
  /\ StepsAt("Auth") # {}
  /\ StepsAt("Close") # {}

\* C3: when RCPT TO fails for the k-th address of the deduplicated list, the
\* k-1 addresses before it were accepted and no others, no RCPT TO and no
\* DATA follows, and the send ends with the recipient error.
C3_RcptFailureStops ==
  \A k \in StepsAt("Rcpt") :
    calls[k].res # "ok" =>
      LET rs == Receivers(plan)
          nth == CHOOSE n \in 1..Len(rs) : AttrString(rs[n]) = calls[k].arg
          accepted == {j \in StepsAt("Rcpt") : calls[j].res = "ok"}
      IN  /\ \E n \in 1..Len(rs) : AttrString(rs[n]) = calls[k].arg
          /\ Cardinality(accepted) = nth - 1
          /\ \A n \in 1..(nth - 1) :
               \E j \in accepted : calls[j].arg = AttrString(rs[n])
          /\ k = Len(calls)
          /\ StepsAt("Data") = {}
          /\ pc = "done"
          /\ diags = <<"Error setting recipient address:">>

\* The second of three recipients was rejected.
C3_Witness ==
  /\ Len(Receivers(plan)) = 3
  /\ \E k \in StepsAt("Rcpt") : calls[k].res = "err" /\ RcptsUpTo(k) = 2

C5_ConnectionClosedAtReturn == Returned => conn # "open"

\* The position of the first occurrence of e in t.
FirstAt(t, e) ==
  CHOOSE n \in 1..Len(t) : t[n] = e /\ \A m \in 1..(n - 1) : t[m] # e

\* C6: the receivers, uniqueAttrValue of to ++ cc ++ bcc, hold every address
\* of the three lists exactly once, in the order of first occurrence, two
\* addresses being the same only when their strings are equal exactly
\* (addresses that differ in case are both kept).
C6_ReceiversDistinctInOrder ==
  pc = "composed" =>
    LET given == (plan.to \o plan.cc) \o plan.bcc
    IN  /\ Range(receivers) = Range(given)
        /\ \A a \in 1..Len(receivers), b \in 1..Len(receivers) :
             a < b => /\ receivers[a] # receivers[b]
                      /\ FirstAt(given, receivers[a]) < FirstAt(given, receivers[b])

\* b@x, a@x in to, A@x in cc and b@x again in bcc: three receivers.
C6_Witness ==
  /\ pc = "composed"
  /\ plan.to = Values(<<AddrB, AddrA>>)
  /\ plan.cc = Values(<<AddrUpperA>>)
  /\ plan.bcc = Values(<<AddrB>>)
  /\ receivers = Values(<<AddrB, AddrA, AddrUpperA>>)

\* The To, Cc and Subject lines of the message m composed from the plan p.
HeaderLines(m, p) == SubSeq(m, 1, Len(HeaderBlock(p)))

\* C7: an address that occurs in bcc only appears in none of the To, Cc and
\* Subject lines of the message, and in a send whose steps all succeed every
\* bcc address is the argument of an accepted RCPT TO.
C7_BccOnlyInEnvelope ==
  /\ (Sending /\ msg # Empty) =>
       \A n \in 1..Len(plan.bcc) :
         plan.bcc[n] \notin Range(plan.to \o plan.cc) =>
           ~Contains(HeaderLines(msg, plan), ValueString(plan.bcc[n]))
  /\ Succeeded =>
       \A n \in 1..Len(plan.bcc) :
         \E k \in StepsAt("Rcpt") :
           calls[k].arg = ValueString(plan.bcc[n]) /\ calls[k].res = "ok"

\* The strings of the elements of a list, as they are.
PlainList(arr) == [n \in 1..Len(arr) |-> ValueString(arr[n])]

\* C8: the bytes written in the DATA phase are "To: " + the to addresses
\* joined by ", " + CRLF + "Cc: " + the cc addresses joined by ", " + CRLF +
\* "Subject: " + subject + CRLF + the MIME block + CRLF + body + CRLF, the
\* address strings unmodified.
C8_MessageBytes ==
  \A k \in StepsAt("Write") :
    calls[k].arg =
      LitTo \o Join(PlainList(plan.to), LitCommaSpace) \o CRLF
        \o LitCc \o Join(PlainList(plan.cc), LitCommaSpace) \o CRLF
        \o LitSubject \o ValueString(plan.subject) \o CRLF
        \o Mime(plan) \o CRLF \o ValueString(plan.body) \o CRLF

\* The plan p differs from the stored state s in the body and nothing else.
OnlyBodyDiffers(s, p) ==
  /\ s.body # p.body
  /\ [s EXCEPT !.body = p.body, !.id = p.id] = p

\* C9: the id stored by a successful send is a function of the message bytes
\* alone: a send of the same bytes as the send before stores the same id, and
\* a send that differs from the one before in the body only stores another.
C9_IdFunctionOfMessage ==
  (Succeeded /\ prior.id.state = "known") =>
    /\ state.id.state = "known"
    /\ Message(prior) = msg => state.id = prior.id
    /\ OnlyBodyDiffers(prior, plan) => state.id # prior.id

\* After a send with body Hello, a send that differs in the body only
\* (Hello!) went through.
C9_Witness ==
  /\ Succeeded
  /\ prior.id.state = "known"
  /\ OnlyBodyDiffers(prior, plan)
  /\ prior.body = StringValue(BodyHello)
  /\ plan.body = StringValue(BodyHelloBang)

\* The same bytes were sent again, from another sender.
C9_WitnessSameBytes ==
  /\ Succeeded
  /\ prior.id.state = "known"
  /\ Message(prior) = msg
  /\ prior.from # plan.from

\* A step from which Read or Delete has run.
NoOpStep == nOps' = nOps + 1 /\ op' \in {"Read", "Delete"}

C11_HtmlChangesMimeOnly ==
  pc = "composed" =>
    LET other == [plan EXCEPT !.render_html = ~plan.render_html]
        plain == IF plan.render_html THEN Message(other) ELSE msg
        html  == IF plan.render_html THEN msg ELSE Message(other)
        head  == HeaderBlock(plan)
        rest  == CRLF \o ValueString(plan.body) \o CRLF
    IN  /\ HeaderBlock(other) = head
        /\ Receivers(other) = receivers
        /\ Sender(other, client) = from
        /\ plain = head \o rest
        /\ html = head \o LitMime \o rest

\* An html request with a recipient was composed.
C11_Witness ==
  /\ pc = "composed"
  /\ plan.render_html
  /\ plan.to # <<>>
  /\ Contains(msg, LitMime)

\* C12: the argument of MAIL FROM is the plan's from when it is set and not
\* empty, and the client's username otherwise, in Create and in Update, with
\* and without authentication.
C12_SenderResolution ==
  \A k \in StepsAt("Mail") :
    calls[k].arg =
      IF plan.from.state = "known" /\ plan.from.value # Empty
      THEN plan.from.value ELSE client.username

\* An Update without from issued MAIL FROM with the username.
C12_Witness ==
  /\ op = "Update"
  /\ plan.from = StringNull
  /\ \E k \in StepsAt("Mail") : calls[k].arg = UserU

\* A Create without authentication and with an empty from issued MAIL FROM.
C12_WitnessEmptyFrom ==
  /\ op = "Create"
  /\ client.auth.nil
  /\ plan.from = StringValue(Empty)
  /\ StepsAt("Mail") # {}

(***************************************************************************)
(* Configure alone, on a wider range of configurations and environments:   *)
(* every attribute null, unknown, empty or set, every variable unset or    *)
(* set, SMTP_AUTHENTICATION also set to something that is no boolean.      *)
(***************************************************************************)
\* "my", "26", "v@x", "q": values of the environment, unlike the configured.
HostEnv == <<109, 121>>
PortEnv == <<50, 54>>
UserEnv == <<118, 64, 120>>
PassEnv == <<113>>
\* "false", "true", "x"
LitFalse == <<102, 97, 108, 115, 101>>
LitTrue == <<116, 114, 117, 101>>
LitNoBool == <<120>>

WideConfigs ==
  [host : {StringNull, StringUnknown, StringValue(Empty), StringValue(HostMx)},
   port : {StringNull, StringUnknown, StringValue(Port25)},
   authentication : {BoolNull, BoolUnknown, BoolValue(TRUE), BoolValue(FALSE)},
   username : {StringNull, StringUnknown, StringValue(Empty), StringValue(UserU)},
   password : {StringNull, StringUnknown, StringValue(PassP)}]

WideEnvs ==
  [SMTP_HOST : {Empty, HostEnv},
   SMTP_PORT : {Empty, PortEnv},
   SMTP_USERNAME : {Empty, UserEnv},
   SMTP_PASSWORD : {Empty, PassEnv},
   SMTP_AUTHENTICATION : {Empty, LitFalse, LitTrue, LitNoBool}]

NextConfigure ==
  /\ CanConfigure
  /\ \E config \in WideConfigs, env \in WideEnvs : Configure(config, env)

SpecConfigure == Init /\ [][NextConfigure]_vars

\* Configure has run.
Ran == client.configured \/ provDiags # <<>>

\* The value a string attribute v stands for: its string when known, the
\* environment's e when null, and none (the empty string) when unknown.
Chosen(v, e) ==
  CASE v.state = "null"  -> e
    [] v.state = "known" -> v.value
    [] OTHER             -> Empty

\* The authentication flag: the attribute when set (an unknown one counts as
\* true), else SMTP_AUTHENTICATION when it is a boolean, else true.
ChosenFlag(v, e) ==
  CASE v.state = "known"   -> v.value
    [] v.state = "unknown" -> TRUE
    [] e \in ParseBoolFalse -> FALSE
    [] OTHER                -> TRUE

\* Host and port are there, and with authentication username and password.
Complete ==
  /\ Chosen(cfg.host, environ.SMTP_HOST) # Empty
  /\ Chosen(cfg.port, environ.SMTP_PORT) # Empty
  /\ ChosenFlag(cfg.authentication, environ.SMTP_AUTHENTICATION) =>
       /\ Chosen(cfg.username, environ.SMTP_USERNAME) # Empty
       /\ Chosen(cfg.password, environ.SMTP_PASSWORD) # Empty

\* C13: Configure hands out a client if and only if the effective host and
\* port are not empty and, with authentication enabled, neither are the
\* effective username and password; otherwise (an unknown host or port
\* included) it reports an error and hands out no client; with authentication
\* disabled an empty username or password is no error.
C13_ClientIffComplete ==
  Ran =>
    /\ client.configured <=> Complete
    /\ Complete => provDiags = <<>>
    /\ ~Complete => provDiags # <<>> /\ client = NoClient
    /\ (IsUnknown(cfg.host) \/ IsUnknown(cfg.port)) => ~client.configured

\* A client was handed out without username and password, authentication
\* being disabled.
C13_Witness ==
  /\ client.configured
  /\ cfg.authentication = BoolValue(FALSE)
  /\ Chosen(cfg.username, environ.SMTP_USERNAME) = Empty
  /\ Chosen(cfg.password, environ.SMTP_PASSWORD) = Empty

\* An unknown port was refused although SMTP_PORT is set.
C13_WitnessUnknown ==
  /\ Ran
  /\ ~client.configured
  /\ IsUnknown(cfg.port)
  /\ environ.SMTP_PORT = PortEnv

\* C14: the client is built from, for each of host, port, username, password
\* and authentication, the configured value when the attribute is set, and
\* the value of SMTP_HOST, SMTP_PORT, SMTP_USERNAME, SMTP_PASSWORD,
\* SMTP_AUTHENTICATION otherwise; a variable never overrides an attribute.
C14_ConfigOverEnv ==
  client.configured =>
    /\ client.host = Chosen(cfg.host, environ.SMTP_HOST)
    /\ client.port = Chosen(cfg.port, environ.SMTP_PORT)
    /\ client.username = Chosen(cfg.username, environ.SMTP_USERNAME)
    /\ client.auth.nil =
         ~ChosenFlag(cfg.authentication, environ.SMTP_AUTHENTICATION)
    /\ ~client.auth.nil =>
         /\ client.auth.username = Chosen(cfg.username, environ.SMTP_USERNAME)
         /\ client.auth.password = Chosen(cfg.password, environ.SMTP_PASSWORD)
         /\ client.auth.host = Chosen(cfg.host, environ.SMTP_HOST)

\* Host and authentication are set both ways and the attributes won; the
\* username and the password come from the environment.
C14_Witness ==
  /\ client.configured
  /\ cfg.host = StringValue(HostMx) /\ environ.SMTP_HOST = HostEnv
  /\ cfg.authentication = BoolValue(TRUE)
  /\ environ.SMTP_AUTHENTICATION = LitFalse
  /\ cfg.username = StringNull /\ cfg.password = StringNull
  /\ client.host = HostMx
  /\ client.auth = PlainAuth(UserEnv, PassEnv, HostMx)

\* C15: with the authentication attribute not set and SMTP_AUTHENTICATION
\* unset or no boolean, authentication is enabled: username and password are
\* required and the client's auth is not nil; and the auth of a client is
\* not nil exactly when authentication is enabled.
C15_AuthenticationByDefault ==
  Ran =>
    /\ client.configured =>
         (~client.auth.nil
            <=> ChosenFlag(cfg.authentication, environ.SMTP_AUTHENTICATION))
    /\ ( /\ IsNull(cfg.authentication)
         /\ environ.SMTP_AUTHENTICATION \notin ParseBoolTrue \cup ParseBoolFalse )
       => /\ client.configured => ~client.auth.nil
          /\ ( /\ ~IsUnknown(cfg.host) /\ ~IsUnknown(cfg.port)
               /\ Chosen(cfg.username, environ.SMTP_USERNAME) = Empty )
             => \E n \in 1..Len(provDiags) :
                  provDiags[n] = "Missing SMTP Username"

\* A client with credentials although nothing says so: the attribute is not
\* set and SMTP_AUTHENTICATION is no boolean.
C15_Witness ==
  /\ client.configured
  /\ cfg.authentication = BoolNull
  /\ environ.SMTP_AUTHENTICATION = LitNoBool
  /\ ~client.auth.nil

\* C16: once the context of a send in flight is cancelled, the send issues
\* no step after the one in progress, and it returns with an error and its
\* connection closed.
C16_CancellationAborts ==
  (Sending /\ ctx.done) =>
    /\ Len(calls) <= ctx.at + 1
    /\ pc = "done" => diags # <<>> /\ conn # "open"

\* Every step of the send was issued and succeeded, the close included.
AllStepsOk ==
  /\ StepsAt("Close") # {}
  /\ \A k \in 1..Len(calls) : calls[k].res = "ok"

\* C18: in Create and in Update the state is written, with the id the hex
\* digest of the message, if and only if every step up to the close of the
\* data writer succeeded; as long as and whenever that is not so, the stored
\* state and id are those found when the operation began.
C18_StateOnlyAfterSuccess ==
  Sending =>
    /\ AllStepsOk <=> Succeeded
    /\ AllStepsOk => state = [plan EXCEPT !.id = StringValue(HexMd5(msg))]
    /\ ~AllStepsOk => state = prior

\* After a successful send, a send of another plan failed at the close.
C18_Witness ==
  /\ Returned
  /\ prior.id.state = "known"
  /\ calls[Len(calls)] = Call("Close", Empty, "err")
  /\ plan.body # prior.body
  /\ state = prior

\* C19: for every client, plan and pattern of failures Update issues the
\* steps Create issues, with the same arguments, errors and id: with
\* credentials Dial, STARTTLS, Auth, MAIL FROM, RCPT TO ..., DATA, write,
\* close, and without credentials the same less STARTTLS and Auth.
C19_UpdateAsCreate ==
  Sending =>
    LET expected ==
          <<"Dial">>
            \o (IF client.auth.nil THEN <<>> ELSE <<"StartTLS", "Auth">>)
            \o <<"Mail">>
            \o [n \in 1..Len(Receivers(plan)) |-> "Rcpt"]
            \o <<"Data", "Write", "Close">>
    IN  /\ Len(calls) <= Len(expected)
        /\ \A k \in 1..Len(calls) : calls[k].step = expected[k]

\* C20: Auth is attempted only after a STARTTLS that succeeded, and a failed
\* STARTTLS is followed by no step: neither Auth nor MAIL FROM.
C20_AuthOnlyAfterStartTLS ==
  Sending =>
    /\ \A k \in StepsAt("Auth") :
         \E j \in StepsAt("StartTLS") : j < k /\ calls[j].res = "ok"
    /\ \A j \in StepsAt("StartTLS") :
         calls[j].res # "ok" => j = Len(calls) /\ pc = "done"

\* Auth was attempted in a Create.
C20_Witness ==
  /\ op = "Create"
  /\ StepsAt("Auth") # {}

\* STARTTLS failed.
C20_WitnessFailed ==
  /\ Returned
  /\ calls[Len(calls)].step = "StartTLS"
  /\ calls[Len(calls)].res = "err"

\* The invocation that dialled connection c.
Opener(c) == calls[c][1].by

\* Each connection carries the calls of the invocation that dialled it and
\* of no other, and each invocation has dialled at most one connection, the
\* one it holds.
OwnConnection ==
  /\ \A c \in 1..Len(calls) : \A k \in 1..Len(calls[c]) :
       /\ calls[c][k].by = Opener(c)
       /\ calls[c][k].step = "Dial" <=> k = 1
  /\ \A c, d \in 1..Len(calls) : Opener(c) = Opener(d) => c = d
  /\ \A i \in Invs :
       IF conn[i] = 0
       THEN \A c \in 1..Len(calls) : Opener(c) # i
       ELSE conn[i] \in 1..Len(calls) /\ Opener(conn[i]) = i

\* C17: when Create and Update invocations run concurrently on one client,
\* under every interleaving each issues its steps on the connection it
\* dialled itself and on no other, and none changes the shared client.
C17_OwnConnectionSharedClient ==
  [](OwnConnection) /\ [][client' = client]_vars

\* Two invocations are in flight at once, each past MAIL FROM on a
\* connection of its own.
C17_Witness ==
  \E i, j \in Invs :
    /\ i # j
    /\ pc[i] \in {"rcpt", "data", "write", "close"}
    /\ pc[j] \in {"rcpt", "data", "write", "close"}
    /\ conn[i] # conn[j]
    /\ Len(calls[conn[i]]) >= 2
    /\ Len(calls[conn[j]]) >= 2

\* C21: DATA is opened only after at least one RCPT TO was issued and
\* accepted, whatever plan the resource accepts, a plan with empty to, cc
\* and bcc included.
C21_DataNeedsRecipient ==
  Sending =>
    \A k \in StepsAt("Data") :
      \E j \in StepsAt("Rcpt") : j < k /\ calls[j].res = "ok"

\* The arguments of the RCPT TO calls made, in order.
RcptArgs ==
  LET rcpts == SelectSeq(calls, LAMBDA c : c.step = "Rcpt")
  IN  [n \in 1..Len(rcpts) |-> rcpts[n].arg]

\* C22: the argument of each RCPT TO is the address as the plan gives it,
\* character for character, and the RCPT TO arguments of a successful send
\* are the distinct recipients in order.
C22_RcptArgumentIsAddress ==
  Sending =>
    /\ \A k \in StepsAt("Rcpt") :
         calls[k].arg = ValueString(receivers[RcptsUpTo(k)])
    /\ Succeeded => RcptArgs = PlainList(Receivers(plan))

\* The plan p with no from and no bcc: what is left is to, cc, subject, body
\* and render_html.
Content(p) == [p EXCEPT !.id = StringUnknown, !.from = StringNull, !.bcc = <<>>]

\* C23: the id stored by a successful send is that of its to, cc, subject,
\* body and render_html alone, whatever the from, the bcc and the client;
\* so a send that agrees on these with the send before it, an update of from
\* or bcc only included, stores the id the state already had.
C23_IdOfContentOnly ==
  Succeeded =>
    /\ state.id = SendId(Content(plan))
    /\ (prior.id.state = "known" /\ Content(prior) = Content(plan))
         => state.id = prior.id

\* An update that changed bcc only has sent again, to other recipients, and
\* the id is the one stored before.
C23_Witness ==
  /\ Succeeded
  /\ op = "Update"
  /\ prior.id.state = "known"
  /\ Content(prior) = Content(plan)
  /\ prior.from = plan.from
  /\ prior.bcc # plan.bcc
  /\ Receivers(prior) # Receivers(plan)
  /\ StepsAt("Rcpt") # {}
  /\ state.id = prior.id

====
